---- MODULE Spec2Model ----
(***************************************************************************)
(* cachetic: the typed cache client (Cachetic) over the document-store     *)
(* backend (MongoCache), as tests/test_mongo_cache.py runs it.             *)
(*                                                                         *)
(* Python values, payloads and optional values are tuples headed by a tag, *)
(* so that any two of them can be compared:                                *)
(*   None is <<>>, Some(x) is <<x>> for optional integers / documents;     *)
(*   a Python value is <<tag, ...>>, Python's None is <<"None">>.          *)
(* Strings (keys, prefixes) are sequences of one-character strings; text   *)
(* values are sequences of code points, bytes are sequences of 0..255.     *)
(***************************************************************************)
EXTENDS Integers, Sequences, FiniteSets, TLC

\* ------------------------------------------------------------------ bounds
\* Clock resolution of the model: time.time() is a float, the model counts
\* it in ticks of 1/TicksPerSec second.
TicksPerSec == 2
\* The clock stops advancing at MaxTime ticks.
MaxTime == 5
\* Largest per-call / configured TTL (seconds) the model draws.
MaxTTL == 1

\* ------------------------------------------------------------ optionals
None == <<>>
Some(x) == <<x>>
IsNone(o) == o = <<>>
Val(o) == o[1]

\* ------------------------------------------------------- Python values
PyNone == <<"None">>
PyBytes(b) == <<"bytes", b>>
PyStr(s) == <<"str", s>>
PyInt(n) == <<"int", n>>
PyFloat(n) == <<"float", n>>
PyBool(b) == <<"bool", b>>
PyList(s) == <<"list", s>>
PyTuple(s) == <<"tuple", s>>
PyDict(s) == <<"dict", s>>
PyPerson(name, age) == <<"Person", name, age>>
PyObject(id, picklable) == <<"object", id, picklable>>

\* ------------------------------------------------ payloads at rest
\* What the client hands to the backend is a Python value too: bytes, an
\* int or a float as they are, a str or bytes object holding the JSON text
\* of a document, or a bytes object holding the pickle of a value.
JsonStr(j) == <<"json_str", j>>
JsonBytes(j) == <<"json_bytes", j>>
Pickle(v) == <<"pickle", v>>

\* JSON documents
JNum(n) == <<"jnum", n>>
JFloat(n) == <<"jfloat", n>>
JText(s) == <<"jstr", s>>
JBool(b) == <<"jbool", b>>
JNull == <<"jnull">>
JArr(s) == <<"jarr", s>>
JObj(s) == <<"jobj", s>>

\* ------------------------------------------------------------- results
\* A call either returns a value or raises: <<"ok", v>> or <<"err", name>>.
Ok(v) == <<"ok", v>>
Raise(e) == <<"err", e>>
IsOk(r) == r[1] = "ok"

\* ------------------------------------------------------ text and bytes
\* Mutant of Utf8Encode: one byte per code point (a latin-1 encoder).
Latin1Encode(s) == [i \in 1..Len(s) |-> s[i] % 256]

\* str.encode("utf-8") on a sequence of code points below 2048.
RECURSIVE Utf8Encode(_)
Utf8Encode(s) ==
    IF s = <<>> THEN <<>>
    ELSE (IF s[1] < 128 THEN <<s[1]>>
          ELSE <<192 + (s[1] \div 64), 128 + (s[1] % 64)>>) \o Utf8Encode(Tail(s))

\* bytes.decode("utf-8"): Some(code points), or None for UnicodeDecodeError.
RECURSIVE Utf8Decode(_)
Utf8Decode(b) ==
    IF b = <<>> THEN Some(<<>>)
    ELSE IF b[1] < 128
         THEN LET r == Utf8Decode(Tail(b))
              IN IF IsNone(r) THEN None ELSE Some(<<b[1]>> \o Val(r))
    ELSE IF b[1] >= 194 /\ b[1] < 224 /\ Len(b) >= 2 /\ b[2] >= 128 /\ b[2] < 192
         THEN LET r == Utf8Decode(Tail(Tail(b)))
              IN IF IsNone(r) THEN None
                 ELSE Some(<<(b[1] - 192) * 64 + (b[2] - 128)>> \o Val(r))
    ELSE None

\* The decimal text of a natural number, as code points ("0" is 48).
RECURSIVE DecimalText(_)
DecimalText(n) ==
    IF n < 10 THEN <<48 + n>> ELSE DecimalText(n \div 10) \o <<48 + (n % 10)>>

\* int(b) on bytes holding decimal digits: Some(n), or None for ValueError.
RECURSIVE ParseDecimal(_, _)
ParseDecimal(b, acc) ==
    IF b = <<>> THEN Some(acc)
    ELSE IF b[1] >= 48 /\ b[1] <= 57 THEN ParseDecimal(Tail(b), acc * 10 + (b[1] - 48))
    ELSE None

\* str(o) of a Python value, as json.dumps(default=str) calls it on a leaf
\* it cannot serialize: an opaque object prints as its identifier.
StrOf(v) == IF v[1] = "object" THEN v[2] ELSE <<63>>

\* ------------------------------------------------------------- JSON
\* json.dumps(value, default=str): the JSON document written for a value.
\* Tuples are written as arrays, non-str dict keys as their text, and any
\* other leaf through default=str.
RECURSIVE ToJson(_)
ToJson(v) ==
    CASE v[1] = "None"  -> JNull
      [] v[1] = "bool"  -> JBool(v[2])
      [] v[1] = "int"   -> JNum(v[2])
      [] v[1] = "float" -> JFloat(v[2])
      [] v[1] = "str"   -> JText(v[2])
      [] v[1] \in {"list", "tuple"} ->
            JArr([i \in 1..Len(v[2]) |-> ToJson(v[2][i])])
      [] v[1] = "dict"  ->
            JObj([i \in 1..Len(v[2]) |->
                   << IF v[2][i][1][1] = "int" THEN DecimalText(v[2][i][1][2])
                      ELSE v[2][i][1][2],
                      ToJson(v[2][i][2]) >>])
      [] OTHER -> JText(StrOf(v))

\* json.loads(text): the Python value of a JSON document.
RECURSIVE FromJson(_)
FromJson(j) ==
    CASE j[1] = "jnull"  -> PyNone
      [] j[1] = "jbool"  -> PyBool(j[2])
      [] j[1] = "jnum"   -> PyInt(j[2])
      [] j[1] = "jfloat" -> PyFloat(j[2])
      [] j[1] = "jstr"   -> PyStr(j[2])
      [] j[1] = "jarr"   -> PyList([i \in 1..Len(j[2]) |-> FromJson(j[2][i])])
      [] j[1] = "jobj"   ->
            PyDict([i \in 1..Len(j[2]) |-> <<PyStr(j[2][i][1]), FromJson(j[2][i][2])>>])

\* Whether a payload is a str or bytes object holding JSON text.
HoldsJson(data) == data[1] \in {"json_str", "json_bytes"}

\* pydantic: Person.model_dump_json / TypeAdapter(Person).dump_json
\* The field names "name" and "age", as code points.
NameKey == <<110, 97, 109, 101>>
AgeKey == <<97, 103, 101>>
PersonToJson(v) == JObj(<< <<NameKey, JText(v[2])>>, <<AgeKey, JNum(v[3])>> >>)

\* pydantic: model_validate_json / validate_json for Person: the document
\* must be an object with a text "name" and an integer "age".
IsPersonJson(j) ==
    /\ j[1] = "jobj"
    /\ Len(j[2]) = 2
    /\ j[2][1][1] = NameKey /\ j[2][1][2][1] = "jstr"
    /\ j[2][2][1] = AgeKey /\ j[2][2][2][1] = "jnum"
PersonFromJson(j) == PyPerson(j[2][1][2][2], j[2][2][2][2])

\* ------------------------------------------------- type descriptors
\* object_type is one of: a pydantic model class (Person), a TypeAdapter
\* instance (of Person), the builtins, object, or anything else (RLock).
SupportedTypes ==
    {"Person", "TypeAdapter", "bytes", "str", "int", "float", "bool",
     "list", "dict", "object"}
Types == SupportedTypes \cup {"RLock"}

HasModelJson(T) == T = "Person"
IsTypeAdapter(T) == T = "TypeAdapter"
IsBytesObj(data) == data[1] \in {"bytes", "json_bytes", "pickle"}
IsStrObj(data) == data[1] \in {"str", "json_str"}
Picklable(v) == ~(v[1] = "object" /\ ~v[3])
Truthy(v) == ~(v \in {PyNone, PyBool(FALSE), PyInt(0), PyFloat(0), PyStr(<<>>),
                      PyBytes(<<>>), PyList(<<>>), PyTuple(<<>>), PyDict(<<>>)})

\* The "Dump value" chain of Cachetic.set: the payload handed to the backend.
Encode(T, value) ==
    IF HasModelJson(T) THEN
        IF value[1] = "Person" THEN Ok(JsonStr(PersonToJson(value)))
        ELSE Raise("AttributeError")
    ELSE IF IsTypeAdapter(T) THEN
        IF value[1] = "Person" THEN Ok(JsonBytes(PersonToJson(value)))
        ELSE Raise("PydanticSerializationError")
    ELSE IF T = "bytes" THEN Ok(value)
    ELSE IF T = "str" THEN
        IF value[1] = "str" THEN Ok(PyBytes(Utf8Encode(value[2])))
        ELSE Raise("AttributeError")
    ELSE IF T = "int" THEN Ok(value)
    ELSE IF T = "float" THEN Ok(value)
    ELSE IF T = "bool" THEN Ok(PyBytes(IF Truthy(value) THEN <<49>> ELSE <<48>>))
    ELSE IF T = "list" THEN Ok(JsonStr(ToJson(value)))
    ELSE IF T = "dict" THEN Ok(JsonStr(ToJson(value)))
    ELSE IF T = "object" THEN
        IF Picklable(value) THEN Ok(Pickle(value)) ELSE Raise("TypeError")
    ELSE Raise("ValueError")

\* int(data) / float(data) on a payload.
IntOf(data) ==
    CASE data[1] = "int" -> Ok(data)
      [] data[1] = "float" -> Ok(PyInt(data[2] \div 10))
      [] data[1] \in {"bytes", "str"} ->
            IF data[2] # <<>> /\ ~IsNone(ParseDecimal(data[2], 0))
            THEN Ok(PyInt(Val(ParseDecimal(data[2], 0))))
            ELSE Raise("ValueError")
      [] OTHER -> Raise("ValueError")
FloatOf(data) ==
    CASE data[1] = "float" -> Ok(data)
      [] data[1] = "int" -> Ok(PyFloat(data[2] * 10))
      [] data[1] \in {"bytes", "str"} ->
            IF data[2] # <<>> /\ ~IsNone(ParseDecimal(data[2], 0))
            THEN Ok(PyFloat(Val(ParseDecimal(data[2], 0)) * 10))
            ELSE Raise("ValueError")
      [] OTHER -> Raise("ValueError")

\* json.loads(data) on a payload.
JsonLoads(data) ==
    CASE HoldsJson(data) -> Ok(FromJson(data[2]))
      [] data[1] \in {"bytes", "str"} ->
            IF data[2] # <<>> /\ ~IsNone(ParseDecimal(data[2], 0))
            THEN Ok(PyInt(Val(ParseDecimal(data[2], 0))))
            ELSE Raise("JSONDecodeError")
      [] data[1] = "pickle" -> Raise("JSONDecodeError")
      [] OTHER -> Raise("TypeError")

\* The dispatch chain of Cachetic.get on a payload that is not None.
Decode(T, data) ==
    IF HasModelJson(T) \/ IsTypeAdapter(T) THEN
        IF HoldsJson(data) /\ IsPersonJson(data[2]) THEN Ok(PersonFromJson(data[2]))
        ELSE Raise("ValidationError")
    ELSE IF T = "bytes" THEN Ok(data)
    ELSE IF T = "str" THEN
        IF IsBytesObj(data) THEN
            CASE data[1] = "bytes" ->
                    IF IsNone(Utf8Decode(data[2])) THEN Raise("UnicodeDecodeError")
                    ELSE Ok(PyStr(Val(Utf8Decode(data[2]))))
              [] data[1] = "json_bytes" -> Ok(JsonStr(data[2]))
              [] OTHER -> Raise("UnicodeDecodeError")
        ELSE IF IsStrObj(data) THEN Ok(data)
        ELSE Raise("TypeError")
    ELSE IF T = "int" THEN IntOf(data)
    ELSE IF T = "float" THEN FloatOf(data)
    ELSE IF T = "bool" THEN Ok(PyBool(~(data = PyBytes(<<48>>))))
    ELSE IF T = "list" THEN JsonLoads(data)
    ELSE IF T = "dict" THEN JsonLoads(data)
    ELSE IF T = "object" THEN
        IF data[1] = "pickle" THEN Ok(data[2])
        ELSE IF IsBytesObj(data) THEN Raise("UnpicklingError")
        ELSE Raise("TypeError")
    ELSE Raise("ValueError")

\* ------------------------------------------------------------ universe
Clients == {1, 2}
\* The threads that may share a client.
Threads == {1, 2}
\* cache_url: None or a connection string; cache_dir: the default directory.
Urls == {None, Some("redis://h:6379/0")}
cache_dir == "./.cache"
\* Logical keys and prefixes, as sequences of characters.
Keys == {<<"k">>, <<"p", ":", "k">>}
Prefixes == {<<>>, <<"p">>, <<"q">>}
\* The same and a prefix that holds the separator.
AllPrefixes == Prefixes \cup {<<"q", ":", "p">>}
\* cache_ttl: -1 no expiration, 0 disable cache, > 0 seconds.
TTLs == {-1, 0} \cup (1..MaxTTL)
\* The per-call ex argument: None or an integer.
ExArgs == {None} \cup {Some(n) : n \in (-1)..MaxTTL}

\* Representative values of each declared type.
Values(T) ==
    CASE T = "bytes"  -> {PyBytes(<<>>), PyBytes(<<48>>)}
      [] T = "str"    -> {PyStr(<<>>), PyStr(<<233, 97>>)}
      [] T = "int"    -> {PyInt(0), PyInt(7)}
      [] T = "float"  -> {PyFloat(0), PyFloat(15)}
      [] T = "bool"   -> {PyBool(FALSE), PyBool(TRUE)}
      [] T = "list"   -> {PyList(<<>>), PyList(<<PyInt(1), PyStr(<<97>>)>>),
                          PyList(<<PyTuple(<<PyInt(1)>>)>>),
                          PyList(<<PyObject(<<79>>, TRUE)>>)}
      [] T = "dict"   -> {PyDict(<<>>), PyDict(<< <<PyStr(<<97>>), PyInt(1)>> >>),
                          PyDict(<< <<PyInt(1), PyStr(<<97>>)>> >>)}
      [] T \in {"Person", "TypeAdapter"} -> {PyPerson(<<65>>, 30), PyPerson(<<>>, 0)}
      [] T = "object" -> {PyNone, PyObject(<<79>>, TRUE), PyObject(<<76>>, FALSE)}
      [] OTHER        -> {PyStr(<<97>>)}

\* ---------------------------------------------------------------- state
VARIABLES
    clients,       \* the clients that have been constructed
    keys,          \* the logical keys the callers use
    exargs,        \* the per-call ex arguments the callers pass
    object_type,   \* Cachetic.object_type of each client
    cache_ttl,     \* Cachetic.cache_ttl of each client
    cache_prefix,  \* Cachetic.cache_prefix of each client
    col,           \* MongoCache.col: the documents {name, value, ex}
    now,           \* time.time(), in ticks of 1/TicksPerSec second
    last,          \* the last call made on a client and its outcome
    written,       \* per physical key, the last write a client's set made
    cache_url,     \* Cachetic.cache_url of each client
    _local_cache,  \* Cachetic._local_cache of each client: None or a handle
    _remote_cache, \* Cachetic._remote_cache of each client: None or a handle
    built,         \* per client, the number of backend handles constructed
    used,          \* per client, the handles its backend calls went through
    pc,            \* per thread, its position inside a call on client 1
    getter_doc,    \* the _doc a MongoCache.get in progress has read
    mongo          \* what the last MongoCache.__init__ that returned has set up

vars == <<clients, keys, exargs, object_type, cache_ttl, cache_prefix, col, now,
          last, written, cache_url, _local_cache, _remote_cache, built, used,
          pc, getter_doc, mongo>>
config == <<clients, keys, exargs, object_type, cache_ttl, cache_prefix, cache_url,
            mongo>>
handles == <<_local_cache, _remote_cache, built, used>>

\* int(time.time())
IntTime == now \div TicksPerSec

\* ------------------------------------------------------------ MongoCache
\* col.find_one({"name": name}): Some(document) or None.
FindOne(name) ==
    IF \E d \in col : d.name = name
    THEN Some(CHOOSE d \in col : d.name = name)
    ELSE None

\* Mutant of StoredEx: only a negative ex is taken for "no expiry".
StoredExZeroExpires(ex) ==
    IF IsNone(ex) \/ Val(ex) < 0 THEN None ELSE Some(IntTime + Val(ex))

\* Mutant of StoredEx: a missing ex is stored as "expires now".
StoredExDefaultsToNow(ex) ==
    IF IsNone(ex) \/ Val(ex) < 1 THEN Some(IntTime) ELSE Some(IntTime + Val(ex))

\* The expiry MongoCache.set stores: None, or int(time.time()) + ceil(ex).
StoredEx(ex) ==
    IF IsNone(ex) \/ Val(ex) < 1 THEN None ELSE Some(IntTime + Val(ex))

\* Mutant of MongoSet: the update sets the value only, an existing document
\* keeps its expiry.
MongoSetValueOnly(name, value, ex) ==
    IF IsNone(FindOne(name))
    THEN col \cup {[name |-> name, value |-> value, ex |-> StoredEx(ex)]}
    ELSE (col \ {Val(FindOne(name))})
         \cup {[name |-> name, value |-> value, ex |-> Val(FindOne(name)).ex]}

\* Mutant of MongoSet: an insert with no uniqueness constraint on name.
MongoSetInsert(name, value, ex) ==
    col \cup {[name |-> name, value |-> value, ex |-> StoredEx(ex)]}

\* Mutant of MongoSet: the write replaces the whole collection.
MongoSetAlone(name, value, ex) ==
    {[name |-> name, value |-> value, ex |-> StoredEx(ex)]}

\* The collection after MongoCache.set(name, value, ex): update_one with
\* upsert=True sets value and ex of the matching document or inserts one.
MongoSet(name, value, ex) ==
    LET doc == [name |-> name, value |-> value, ex |-> StoredEx(ex)]
    IN IF IsNone(FindOne(name)) THEN col \cup {doc}
       ELSE (col \ {Val(FindOne(name))}) \cup {doc}

\* Mutant of Expired: a document expires as soon as the whole-second clock
\* reaches its stored expiry.
ExpiredAtExpiry(doc) == ~IsNone(doc.ex) /\ Val(doc.ex) <= IntTime

\* Whether MongoCache.get takes a document for expired.
Expired(doc) == ~IsNone(doc.ex) /\ Val(doc.ex) < IntTime

\* What MongoCache.get(name) returns: Some(value) or None.
MongoGetOut(name) ==
    LET _doc == FindOne(name)
    IN IF IsNone(_doc) THEN None
       ELSE IF IsNone(Val(_doc).ex) THEN Some(Val(_doc).value)
       ELSE IF Expired(Val(_doc)) THEN None
       ELSE Some(Val(_doc).value)

\* Mutant of MongoGetCol: the eviction deletes every expired document.
MongoGetColPurge(name) ==
    LET _doc == FindOne(name)
    IN IF ~IsNone(_doc) /\ Expired(Val(_doc))
       THEN {d \in col : ~Expired(d)} ELSE col

\* The collection after MongoCache.get(name): delete_one on an expired document.
MongoGetCol(name) ==
    LET _doc == FindOne(name)
    IN IF ~IsNone(_doc) /\ Expired(Val(_doc)) THEN col \ {Val(_doc)} ELSE col

\* ---------------------------------------------------------------- Cachetic
\* Mutant of get_cache_key: the prefix is never applied.
get_cache_key_unprefixed(c, key, with_prefix) == key

\* Mutant of get_cache_key: with_prefix is ignored.
get_cache_key_always_prefixed(c, key, with_prefix) ==
    IF cache_prefix[c] # <<>> THEN cache_prefix[c] \o <<":">> \o key ELSE key

\* Mutant of get_cache_key: a key that holds the separator is taken for
\* prefixed already.
get_cache_key_once(c, key, with_prefix) ==
    IF with_prefix /\ cache_prefix[c] # <<>> /\ (\A i \in 1..Len(key) : key[i] # ":")
    THEN cache_prefix[c] \o <<":">> \o key
    ELSE key

get_cache_key(c, key, with_prefix) ==
    IF with_prefix /\ cache_prefix[c] # <<>>
    THEN cache_prefix[c] \o <<":">> \o key
    ELSE key

PhysKeys == {IF p # <<>> THEN p \o <<":">> \o k ELSE k : p \in AllPrefixes, k \in Keys}

\* Mutant of ResolveEx: a positive cache_ttl wins over the per-call ex.
ResolveExDefaultFirst(c, ex) ==
    IF cache_ttl[c] > 0 THEN Some(cache_ttl[c]) ELSE ex

\* ex = ex if ex is not None else self.cache_ttl if self.cache_ttl > 0 else None
ResolveEx(c, ex) ==
    IF ~IsNone(ex) THEN ex
    ELSE IF cache_ttl[c] > 0 THEN Some(cache_ttl[c]) ELSE None

\* Mutant of SkipsWrite: the "if ex == 0" return is missing.
SkipsWriteNever(c, ex) == FALSE

\* Whether Cachetic.set returns before the dump: "No need to set cache".
SkipsWrite(c, ex) == ResolveEx(c, ex) = Some(0)

\* Mutant of GetResult: the type dispatch runs before the None check.
GetResultDispatchFirst(c, key) ==
    LET data == MongoGetOut(get_cache_key(c, key, TRUE))
        out == Decode(object_type[c], IF IsNone(data) THEN PyNone ELSE Val(data))
    IN IF ~IsOk(out) THEN out ELSE IF IsNone(data) THEN Ok(PyNone) ELSE out

\* Mutant of GetResult: a type descriptor outside the dispatch chain reads as
\* a miss.
GetResultUnsupportedIsMiss(c, key) ==
    LET data == MongoGetOut(get_cache_key(c, key, TRUE))
    IN IF IsNone(data) \/ object_type[c] \notin SupportedTypes THEN Ok(PyNone)
       ELSE Decode(object_type[c], Val(data))

\* What Cachetic.get(key) returns or raises.
GetResult(c, key) ==
    LET data == MongoGetOut(get_cache_key(c, key, TRUE))
    IN IF IsNone(data) THEN Ok(PyNone) ELSE Decode(object_type[c], Val(data))

\* Mutant of GetOrRaiseResult: "if not out" in place of "if out is None".
GetOrRaiseResultFalsy(c, key) ==
    LET out == GetResult(c, key)
    IN IF IsOk(out) /\ ~Truthy(out[2]) THEN Raise("CacheNotFoundError") ELSE out

\* What Cachetic.get_or_raise(key) returns or raises.
GetOrRaiseResult(c, key) ==
    LET out == GetResult(c, key)
    IN IF IsOk(out) /\ out[2] = PyNone THEN Raise("CacheNotFoundError") ELSE out

\* The instant (in ticks) at which ex seconds have passed since now; None
\* when the write asks for no expiration.
Deadline(ex) ==
    IF IsNone(ex) \/ Val(ex) < 1 THEN None ELSE Some(now + Val(ex) * TicksPerSec)

\* A call on a client: its arguments, the physical key it handed to the
\* backend (None when it made no backend call) and what it returned or raised.
Call(op, c, key, ex, pk, res) ==
    [op |-> op, c |-> c, key |-> key, ex |-> ex, pk |-> pk, res |-> res]

\* The stored expiry of the document a write to name replaces: None when
\* there is no document or it has no expiry.
ReplacedEx(name) ==
    IF IsNone(FindOne(name)) THEN None ELSE Val(FindOne(name)).ex

\* Mutant of cache: the local backend whatever cache_url is.
cache_local_only(c) == "local"

\* The cache property: which backend property it returns.
cache(c) == IF IsNone(cache_url[c]) THEN "local" ELSE "remote"

\* The private attribute behind a backend property.
Attr(c, kind) == IF kind = "local" THEN _local_cache[c] ELSE _remote_cache[c]

\* diskcache.Cache(self.cache_dir) / redis.Redis.from_url(cache_url): a new
\* handle on the directory or the connection string.
NewHandle(c, kind) ==
    <<kind, IF kind = "local" THEN cache_dir ELSE Val(cache_url[c]), built[c] + 1>>

\* Mutant of local_or_remote_cache: a handle is constructed at every access.
local_or_remote_cache_uncached(c, kind) == NewHandle(c, kind)

\* The local_cache / remote_cache property run by one thread alone: the
\* handle the attribute holds, a new one when it holds None.
local_or_remote_cache(c, kind) ==
    IF IsNone(Attr(c, kind)) THEN NewHandle(c, kind) ELSE Val(Attr(c, kind))

\* A backend call of client c through self.cache.
UseCache(c) ==
    LET kind == cache(c)
        h == local_or_remote_cache(c, kind)
    IN /\ _local_cache' = IF kind = "local"
                          THEN [_local_cache EXCEPT ![c] = Some(h)]
                          ELSE _local_cache
       /\ _remote_cache' = IF kind = "remote"
                           THEN [_remote_cache EXCEPT ![c] = Some(h)]
                           ELSE _remote_cache
       /\ built' = [built EXCEPT ![c] = IF Some(h) = Attr(c, kind) THEN @ ELSE @ + 1]
       /\ used' = [used EXCEPT ![c] = @ \cup {h}]

\* Mutant of Set: the backend is written before the value is dumped, so a
\* set that raises has left an empty payload under the key.
SetWritesFirst(c, key, value, ex) ==
    LET _key == get_cache_key(c, key, TRUE)
        e == Encode(object_type[c], value)
    IN IF SkipsWrite(c, ex) THEN
            /\ last' = Call("set", c, key, ex, None, Ok(PyNone))
            /\ UNCHANGED <<col, written, handles>>
       ELSE /\ UseCache(c)
            /\ col' = MongoSet(_key, IF IsOk(e) THEN e[2] ELSE PyBytes(<<>>),
                               ResolveEx(c, ex))
            /\ written' = IF ~IsOk(e) THEN written
                          ELSE [written EXCEPT ![_key] =
                             Some([c |-> c, key |-> key, value |-> value,
                                   ex |-> ResolveEx(c, ex),
                                   due |-> Deadline(ResolveEx(c, ex)),
                                   prev |-> ReplacedEx(_key)])]
            /\ last' = Call("set", c, key, ex,
                            IF IsOk(e) THEN Some(_key) ELSE None,
                            IF IsOk(e) THEN Ok(PyNone) ELSE e)

Set(c, key, value, ex) ==
    LET _key == get_cache_key(c, key, TRUE)
        e == Encode(object_type[c], value)
    IN IF SkipsWrite(c, ex) THEN
            /\ last' = Call("set", c, key, ex, None, Ok(PyNone))
            /\ UNCHANGED <<col, written, handles>>
       ELSE IF ~IsOk(e) THEN
            /\ last' = Call("set", c, key, ex, None, e)
            /\ UNCHANGED <<col, written, handles>>
       ELSE /\ UseCache(c)
            /\ col' = MongoSet(_key, e[2], ResolveEx(c, ex))
            /\ written' = [written EXCEPT ![_key] =
                             Some([c |-> c, key |-> key, value |-> value,
                                   ex |-> ResolveEx(c, ex),
                                   due |-> Deadline(ResolveEx(c, ex)),
                                   prev |-> ReplacedEx(_key)])]
            /\ last' = Call("set", c, key, ex, Some(_key), Ok(PyNone))

\* Cachetic.get once self.cache has returned the backend handle.
GetCall(c, key) ==
    /\ last' = Call("get", c, key, None, Some(get_cache_key(c, key, TRUE)),
                    GetResult(c, key))
    /\ col' = MongoGetCol(get_cache_key(c, key, TRUE))
    /\ UNCHANGED written

Get(c, key) ==
    /\ UseCache(c)
    /\ GetCall(c, key)

GetOrRaise(c, key) ==
    /\ UseCache(c)
    /\ last' = Call("get_or_raise", c, key, None,
                    Some(get_cache_key(c, key, TRUE)), GetOrRaiseResult(c, key))
    /\ col' = MongoGetCol(get_cache_key(c, key, TRUE))
    /\ UNCHANGED written

\* Cachetic defines no delete: the attribute lookup raises.
Delete(c, key) ==
    /\ last' = Call("delete", c, key, None, None, Raise("AttributeError"))
    /\ UNCHANGED <<col, written, handles>>

DoSet ==
    /\ \E c \in clients, key \in keys, ex \in exargs :
          \E value \in Values(object_type[c]) : Set(c, key, value, ex)
    /\ UNCHANGED <<config, now, pc, getter_doc>>

DoGet ==
    /\ \E c \in clients, key \in keys : Get(c, key)
    /\ UNCHANGED <<config, now, pc, getter_doc>>

DoGetOrRaise ==
    /\ \E c \in clients, key \in keys : GetOrRaise(c, key)
    /\ UNCHANGED <<config, now, pc, getter_doc>>

DoDelete ==
    /\ \E c \in clients, key \in keys : Delete(c, key)
    /\ UNCHANGED <<config, now, pc, getter_doc>>

\* ---- two threads inside their first call, a get, on the shared client 1
\* "if self._local_cache is None" / "if self._remote_cache is None".
ThreadCheck(t) ==
    /\ pc[t] = "start"
    /\ pc' = [pc EXCEPT ![t] = IF IsNone(Attr(1, cache(1))) THEN "build" ELSE "return"]
    /\ UNCHANGED <<config, col, now, last, written, handles, getter_doc>>

\* The handle is constructed and assigned to the private attribute.
ThreadBuild(t) ==
    /\ pc[t] = "build"
    /\ LET kind == cache(1)
           h == NewHandle(1, kind)
       IN /\ _local_cache' = IF kind = "local"
                             THEN [_local_cache EXCEPT ![1] = Some(h)]
                             ELSE _local_cache
          /\ _remote_cache' = IF kind = "remote"
                              THEN [_remote_cache EXCEPT ![1] = Some(h)]
                              ELSE _remote_cache
          /\ built' = [built EXCEPT ![1] = @ + 1]
    /\ pc' = [pc EXCEPT ![t] = "return"]
    /\ UNCHANGED <<config, col, now, last, written, used, getter_doc>>

\* The property returns what the attribute holds and get calls the backend
\* through it.
ThreadCall(t) ==
    /\ pc[t] = "return"
    /\ \E key \in keys : GetCall(1, key)
    /\ used' = [used EXCEPT ![1] = @ \cup {Val(Attr(1, cache(1)))}]
    /\ pc' = [pc EXCEPT ![t] = "done"]
    /\ UNCHANGED <<config, now, _local_cache, _remote_cache, built, getter_doc>>

DoThreadCheck == \E t \in Threads : ThreadCheck(t)
DoThreadBuild == \E t \in Threads : ThreadBuild(t)
DoThreadCall == \E t \in Threads : ThreadCall(t)

\* The calls made after both threads have returned.
LaterCall ==
    /\ \A t \in Threads : pc[t] = "done"
    /\ (DoSet \/ DoGet \/ DoGetOrRaise)

\* ---- MongoCache.get step by step, inside Cachetic.get run by thread 1
\* _doc = self.col.find_one({"name": name})
GetFind(c, key) ==
    /\ pc[1] = "idle"
    /\ UseCache(c)
    /\ getter_doc' = Some([c |-> c, key |-> key,
                           doc |-> FindOne(get_cache_key(c, key, TRUE))])
    /\ pc' = [pc EXCEPT ![1] = "found"]
    /\ UNCHANGED <<config, col, now, last, written>>

\* The tests on _doc: get returns, or goes on to delete_one.
GetCheck ==
    /\ pc[1] = "found"
    /\ LET g == Val(getter_doc)
           _key == get_cache_key(g.c, g.key, TRUE)
       IN IF ~IsNone(g.doc) /\ Expired(Val(g.doc))
          THEN /\ pc' = [pc EXCEPT ![1] = "evict"]
               /\ UNCHANGED <<last, getter_doc>>
          ELSE /\ pc' = [pc EXCEPT ![1] = "idle"]
               /\ getter_doc' = None
               /\ last' = Call("get", g.c, g.key, None, Some(_key),
                               IF IsNone(g.doc) THEN Ok(PyNone)
                               ELSE Decode(object_type[g.c], Val(g.doc).value))
    /\ UNCHANGED <<config, col, now, written, handles>>

\* self.col.delete_one({"name": name}); return None
GetEvict ==
    /\ pc[1] = "evict"
    /\ LET g == Val(getter_doc)
           _key == get_cache_key(g.c, g.key, TRUE)
       IN /\ col' = {d \in col : d.name # _key}
          /\ last' = Call("get", g.c, g.key, None, Some(_key), Ok(PyNone))
    /\ pc' = [pc EXCEPT ![1] = "idle"]
    /\ getter_doc' = None
    /\ UNCHANGED <<config, now, written, handles>>

DoGetFind == \E c \in clients, key \in keys : GetFind(c, key)

\* ---- calls made on the MongoCache itself
Payloads == {PyBytes(<<>>), PyBytes(<<48>>)}

MongoCacheSet(name, value, ex) ==
    /\ col' = MongoSet(name, value, ex)
    /\ written' = [written EXCEPT ![name] =
                     Some([c |-> 1, key |-> name, value |-> value, ex |-> ex,
                           due |-> Deadline(ex), prev |-> ReplacedEx(name)])]
    /\ last' = Call("MongoCache.set", 1, name, ex, Some(name), Ok(PyNone))

MongoCacheGet(name) ==
    /\ col' = MongoGetCol(name)
    /\ last' = Call("MongoCache.get", 1, name, None, Some(name),
                    IF IsNone(MongoGetOut(name)) THEN Ok(PyNone)
                    ELSE Ok(Val(MongoGetOut(name))))
    /\ UNCHANGED written

DoMongoCacheSet ==
    /\ \E name \in keys, value \in Payloads, ex \in exargs :
          MongoCacheSet(name, value, ex)
    /\ UNCHANGED <<config, now, handles, pc, getter_doc>>

DoMongoCacheGet ==
    /\ \E name \in keys : MongoCacheGet(name)
    /\ UNCHANGED <<config, now, handles, pc, getter_doc>>

\* ---- MongoCache.__init__
\* A connection string as urllib.parse.urlparse splits it: <<scheme, path,
\* query>>, each a sequence of characters; the empty string splits into
\* three empty parts.
SchemeOf(url) == url[1]
PathOf(url) == url[2]
QueryOf(url) == url[3]
Schemes == {<<>>, <<"m", "o", "n", "g", "o", "d", "b">>,
            <<"m", "o", "n", "g", "o", "d", "b", "+", "s", "r", "v">>,
            <<"r", "e", "d", "i", "s">>}
Paths == {<<>>, <<"/">>, <<"/", "d">>, <<"/", "d", "/">>}
CollectionEq == <<"c", "o", "l", "l", "e", "c", "t", "i", "o", "n", "=">>
Queries == {<<>>, CollectionEq, CollectionEq \o <<"a">>,
            CollectionEq \o <<"a", "&">> \o CollectionEq \o <<"b">>,
            <<"x", "=", "1">>,
            <<"x", "=", "1", "&">> \o CollectionEq \o <<"b">>}
MongoUrls == {<<s, p, q>> : s \in Schemes, p \in Paths, q \in Queries}

\* str_or_none(s): None for an empty string.
str_or_none(s) == IF s = <<>> THEN None ELSE Some(s)

\* Whether the connection string itself is empty.
IsEmptyUrl(url) == url = <<<<>>, <<>>, <<>>>>

StartsWith(s, p) == Len(s) >= Len(p) /\ SubSeq(s, 1, Len(p)) = p

\* s.strip("/")
RECURSIVE Strip(_)
Strip(s) ==
    IF s = <<>> THEN s
    ELSE IF Head(s) = "/" THEN Strip(Tail(s))
    ELSE IF s[Len(s)] = "/" THEN Strip(SubSeq(s, 1, Len(s) - 1))
    ELSE s

\* s.split(ch): the segments of s between the occurrences of ch.
RECURSIVE Split(_, _)
Split(s, ch) ==
    IF \A i \in 1..Len(s) : s[i] # ch THEN <<s>>
    ELSE LET i == CHOOSE j \in 1..Len(s) : s[j] = ch /\ \A k \in 1..(j - 1) : s[k] # ch
         IN <<SubSeq(s, 1, i - 1)>> \o Split(SubSeq(s, i + 1, Len(s)), ch)

\* urllib.parse.parse_qs(query).get(name, []): the values given to name, in
\* order; a field with no "=" or with a blank value is dropped.
RECURSIVE FieldValues(_, _)
FieldValues(fields, name) ==
    IF fields = <<>> THEN <<>>
    ELSE LET f == Head(fields)
             nv == Split(f, "=")
         IN (IF Len(nv) >= 2 /\ nv[1] = name /\ SubSeq(f, Len(name) + 2, Len(f)) # <<>>
             THEN <<SubSeq(f, Len(name) + 2, Len(f))>> ELSE <<>>)
            \o FieldValues(Tail(fields), name)
QueryGet(query, name) == FieldValues(Split(query, "&"), name)

CollectionName == <<"c", "o", "l", "l", "e", "c", "t", "i", "o", "n">>

\* Mutant of MongoCacheInit: the last collection name is used.
MongoCacheInitLastName(url) ==
    IF IsEmptyUrl(url) \/ ~StartsWith(SchemeOf(url), <<"m", "o", "n", "g", "o">>)
       \/ IsNone(str_or_none(Strip(PathOf(url))))
       \/ Len(QueryGet(QueryOf(url), CollectionName)) = 0
    THEN Raise("ValueError")
    ELSE Ok(<<"MongoCache", Strip(PathOf(url)),
              QueryGet(QueryOf(url), CollectionName)[
                  Len(QueryGet(QueryOf(url), CollectionName))],
              <<"name", "unique">>>>)

\* MongoCache.__init__(cache_url): raises ValueError, or sets up the client,
\* the database, the collection and the unique index on name.
MongoCacheInit(url) ==
    IF IsEmptyUrl(url) THEN Raise("ValueError")
    ELSE IF ~StartsWith(SchemeOf(url), <<"m", "o", "n", "g", "o">>)
    THEN Raise("ValueError")
    ELSE LET __db_name == str_or_none(Strip(PathOf(url)))
             __col_names == QueryGet(QueryOf(url), CollectionName)
         IN IF IsNone(__db_name) THEN Raise("ValueError")
            ELSE IF Len(__col_names) = 0 THEN Raise("ValueError")
            ELSE Ok(<<"MongoCache", Val(__db_name), __col_names[1],
                      <<"name", "unique">>>>)

NewMongoCache(url) ==
    /\ last' = Call("MongoCache", 1, url, None, None, MongoCacheInit(url))
    /\ mongo' = IF IsOk(MongoCacheInit(url)) THEN Some(MongoCacheInit(url)[2])
                ELSE mongo
    /\ UNCHANGED <<clients, keys, exargs, object_type, cache_ttl, cache_prefix,
                   cache_url, col, now, written, handles, pc, getter_doc>>

DoNewMongoCache == \E url \in MongoUrls : NewMongoCache(url)

\* The clock advances between calls.
Tick ==
    /\ now < MaxTime
    /\ now' = now + 1
    /\ UNCHANGED <<config, col, last, written, handles, pc, getter_doc>>

NoCall == Call("none", 1, <<"k">>, None, None, Ok(PyNone))

\* After construction: the given clients with their configurations (a client
\* not constructed keeps the field defaults), an empty collection, no call
\* made yet, no backend handle.
InitFields(cs, ks, exs, types, ttls, prefixes) ==
    /\ clients = cs
    /\ keys = ks
    /\ exargs = exs
    /\ \E t \in [cs -> types], l \in [cs -> ttls], p \in [cs -> prefixes] :
          /\ object_type = [c \in Clients |-> IF c \in cs THEN t[c] ELSE "object"]
          /\ cache_ttl = [c \in Clients |-> IF c \in cs THEN l[c] ELSE -1]
          /\ cache_prefix = [c \in Clients |-> IF c \in cs THEN p[c] ELSE <<>>]
    /\ col = {}
    /\ now = 0
    /\ last = NoCall
    /\ written = [pk \in PhysKeys |-> None]
    /\ _local_cache = [c \in Clients |-> None]
    /\ _remote_cache = [c \in Clients |-> None]
    /\ built = [c \in Clients |-> 0]
    /\ used = [c \in Clients |-> {}]
    /\ getter_doc = None
    /\ mongo = None

\* Clients constructed without a cache_url, called by one thread at a time.
InitWith(cs, ks, exs, types, ttls, prefixes) ==
    /\ InitFields(cs, ks, exs, types, ttls, prefixes)
    /\ cache_url = [c \in Clients |-> None]
    /\ pc = [t \in Threads |-> "idle"]

\* One client caching str values, of any configured TTL, with or without a
\* prefix; the clock runs.
Init == InitWith({1}, {<<"k">>}, ExArgs, {"str"}, TTLs, {<<>>, <<"p">>})

Next == DoSet \/ DoGet \/ DoGetOrRaise \/ DoDelete \/ Tick

Spec == Init /\ [][Next]_vars

\* One client of any type descriptor, with the default TTL and prefix.
InitCodec == InitWith({1}, {<<"k">>}, ExArgs, Types, {-1}, {<<>>})

SpecCodec == InitCodec /\ [][Next]_vars

\* Two clients caching str values on one backend, each with any prefix,
\* setting without a per-call ex; the clock stands still.
InitShared == InitWith({1, 2}, Keys, {None}, {"str"}, {-1}, Prefixes)

NextShared == DoSet \/ DoGet \/ DoGetOrRaise \/ DoDelete

SpecShared == InitShared /\ [][NextShared]_vars

\* Two clients on one backend, each caching str values or holding a type
\* descriptor outside the dispatch chain; the clock runs.
InitMixed == InitWith({1, 2}, {<<"k">>}, ExArgs, {"str", "RLock"}, {-1}, {<<>>})

SpecMixed == InitMixed /\ [][Next]_vars

\* One client caching str values under two keys, written with no expiry or
\* with a one-second expiry; the clock runs.
InitEvict == InitWith({1}, Keys, {None, Some(1)}, {"str"}, {-1}, {<<>>})

NextEvict == DoSet \/ DoGet \/ Tick

SpecEvict == InitEvict /\ [][NextEvict]_vars

\* One client caching str values, constructed with or without a cache_url.
InitBackend ==
    /\ InitFields({1}, {<<"k">>}, ExArgs, {"str"}, {-1}, {<<>>})
    /\ \E u \in Urls : cache_url = [c \in Clients |-> IF c = 1 THEN u ELSE None]
    /\ pc = [t \in Threads |-> "idle"]

SpecBackend == InitBackend /\ [][Next]_vars

\* Two threads start their first call on the shared client 1 at once.
InitThreads ==
    /\ InitFields({1}, Keys, {None}, {"str"}, {-1}, {<<>>})
    /\ \E u \in Urls : cache_url = [c \in Clients |-> IF c = 1 THEN u ELSE None]
    /\ pc = [t \in Threads |-> "start"]

NextThreads == DoThreadCheck \/ DoThreadBuild \/ DoThreadCall \/ LaterCall

SpecThreads == InitThreads /\ [][NextThreads]_vars

\* A get of thread 1 runs step by step while another thread sets and the
\* clock runs.
InitRace == InitWith({1}, {<<"k">>}, {None, Some(1)}, {"str"}, {-1}, {<<>>})

NextRace == DoSet \/ DoGetFind \/ GetCheck \/ GetEvict \/ Tick

SpecRace == InitRace /\ [][NextRace]_vars

\* One client caching str values under two keys, with every call of the
\* client; the clock runs.
SpecFrame == InitEvict /\ [][Next]_vars

\* Two clients on one backend, each caching opaque objects, some of which
\* cannot be pickled, or holding a type descriptor outside the dispatch
\* chain; the clock runs.
InitFail == InitWith({1, 2}, {<<"k">>}, ExArgs, {"object", "RLock"}, {-1}, {<<>>})

SpecFail == InitFail /\ [][Next]_vars

\* A MongoCache called directly, with every ex; the clock runs.
InitMongo == InitWith({1}, {<<"k">>}, ExArgs, {"bytes"}, {-1}, {<<>>})

NextMongo == DoMongoCacheSet \/ DoMongoCacheGet \/ Tick

SpecMongo == InitMongo /\ [][NextMongo]_vars

\* Two clients caching str values on one backend, each with any prefix,
\* one that holds the separator included; the clock stands still.
InitNames == InitWith({1, 2}, Keys, {None}, {"str"}, {-1}, AllPrefixes)

SpecNames == InitNames /\ [][NextShared]_vars

\* MongoCache objects are constructed from connection strings, and the one
\* constructed last is called.
NextConstruct ==
    \/ DoNewMongoCache
    \/ (~IsNone(mongo) /\ (DoMongoCacheSet \/ DoMongoCacheGet))

SpecConstruct == InitMongo /\ [][NextConstruct]_vars

\* ------------------------------------------------------------- claims
PK(c, key) == get_cache_key(c, key, TRUE)
\* The physical key the claims expect for a logical key.
Prefixed(c, key) ==
    IF cache_prefix[c] = <<>> THEN key ELSE cache_prefix[c] \o <<":">> \o key
HasDoc(name) == \E d \in col : d.name = name
IsRead(op) == op \in {"get", "get_or_raise"}

\* Values json.dumps / json.loads carry over unchanged: None, bool, int,
\* float, str, and lists and str-keyed dicts of such values.
RECURSIVE JsonNative(_)
JsonNative(v) ==
    CASE v[1] \in {"None", "bool", "int", "float", "str"} -> TRUE
      [] v[1] = "list" -> \A i \in 1..Len(v[2]) : JsonNative(v[2][i])
      [] v[1] = "dict" ->
            \A i \in 1..Len(v[2]) : v[2][i][1][1] = "str" /\ JsonNative(v[2][i][2])
      [] OTHER -> FALSE

\* A get that follows a write made with no expiration (and no later write).
ReadsBack(w) ==
    /\ last.op = "get"
    /\ ~IsNone(w)
    /\ IsNone(Val(w).ex)
    /\ Val(w).c = last.c /\ Val(w).key = last.key
    /\ object_type[last.c] \in SupportedTypes

\* C1 as stated: for every supported type descriptor and every value v of
\* that type, set(k, v) with no expiration followed by get(k) returns a value
\* equal to v.
C1_RoundTripEveryValue ==
    last.op = "get" =>
        LET w == written[Val(last.pk)]
        IN ReadsBack(w) => last.res = Ok(Val(w).value)

\* C1 amended: the round trip holds for every supported type and every value
\* the set wrote, provided that for list and dict the value is built of
\* JSON-native values only.
C1_RoundTrip ==
    last.op = "get" =>
        LET w == written[Val(last.pk)]
        IN (/\ ReadsBack(w)
            /\ object_type[last.c] \in {"list", "dict"} => JsonNative(Val(w).value))
           => last.res = Ok(Val(w).value)

C1_Witness ==
    /\ last.op = "get"
    /\ object_type[last.c] = "dict"
    /\ ReadsBack(written[Val(last.pk)])
    /\ Val(written[Val(last.pk)]).value = PyDict(<< <<PyStr(<<97>>), PyInt(1)>> >>)
    /\ last.res = Ok(PyDict(<< <<PyStr(<<97>>), PyInt(1)>> >>))

\* C2: on a client whose cache_ttl is 0, set(k, v) with no per-call ex
\* writes nothing, so a following get(k) on a key not otherwise written
\* returns None.
C2_ZeroTTLDisablesCaching ==
    (last.op = "get" /\ cache_ttl[last.c] = 0) =>
        LET w == written[Val(last.pk)]
        IN (IsNone(w) \/ IsNone(Val(w).ex)) => last.res = Ok(PyNone)

\* C3: an entry written with a positive TTL of N seconds reads as absent on
\* every get issued more than N seconds after the set, and that get removes
\* the document from the collection.
C3_AbsentAfterTTL ==
    \A c \in clients, key \in keys :
        LET w == written[PK(c, key)]
        IN (~IsNone(w) /\ ~IsNone(Val(w).due) /\ Val(Val(w).due) < now) =>
              /\ GetResult(c, key) = Ok(PyNone)
              /\ \A d \in MongoGetCol(PK(c, key)) : d.name # PK(c, key)

\* C4: an entry written by set(k, v) with no per-call ex on a client whose
\* cache_ttl is -1 is returned by get(k) at every later time, until k is
\* written again.
C4_NoExpiration ==
    \A c \in clients, key \in keys :
        LET w == written[PK(c, key)]
        IN (/\ ~IsNone(w)
            /\ Val(w).c = c /\ Val(w).key = key
            /\ IsNone(Val(w).ex)
            /\ cache_ttl[c] = -1)
           => GetResult(c, key) = Ok(Val(w).value)

C4_Witness ==
    /\ last.op = "get"
    /\ now = MaxTime
    /\ cache_ttl[last.c] = -1
    /\ ~IsNone(written[Val(last.pk)])
    /\ IsNone(Val(written[Val(last.pk)]).ex)
    /\ Val(written[Val(last.pk)]).value = PyStr(<<233, 97>>)
    /\ last.res = Ok(PyStr(<<233, 97>>))

\* The payload and stored expiry the last write to a physical key asked for.
WrittenDoc(pk, w) ==
    [name |-> pk,
     value |-> Encode(object_type[w.c], w.value)[2],
     ex |-> IF IsNone(w.due) THEN None ELSE Some(Val(w.due) \div TicksPerSec)]

\* C5: set on a key that already has an entry replaces both the value and
\* the expiration: the collection holds for the key no document but the one
\* the last set wrote, and an entry re-set without a TTL is there and is
\* returned by get whatever expiry the replaced entry had.
C5_Upsert ==
    \A c \in clients, key \in keys :
        LET pk == PK(c, key)
            w == written[pk]
        IN ~IsNone(w) =>
              /\ \A d \in col : d.name = pk => d = WrittenDoc(pk, Val(w))
              /\ IsNone(Val(w).due) =>
                    /\ WrittenDoc(pk, Val(w)) \in col
                    /\ GetResult(c, key) = Ok(Val(w).value)

\* A key re-set without a TTL over an entry whose expiry has since passed,
\* and read back.
C5_Witness ==
    /\ last.op = "get"
    /\ ~IsNone(written[Val(last.pk)])
    /\ IsNone(Val(written[Val(last.pk)]).ex)
    /\ ~IsNone(Val(written[Val(last.pk)]).prev)
    /\ Val(Val(written[Val(last.pk)]).prev) < IntTime
    /\ last.res = Ok(Val(written[Val(last.pk)]).value)

\* C6: the client exposes delete(k), which raises no error and after which
\* get(k) returns None.
C6_DeleteRemoves ==
    last.op = "delete" =>
        /\ IsOk(last.res)
        /\ GetResult(last.c, last.key) = Ok(PyNone)

\* C7: get(k) on a key that was never written, or whose entry has expired,
\* returns None and does not raise, whatever the client's type descriptor.
C7_AbsentKey ==
    \A c \in clients, key \in keys :
        (\/ IsNone(written[PK(c, key)])
         \/ \E d \in col : d.name = PK(c, key) /\ Expired(d))
        => GetResult(c, key) = Ok(PyNone)

\* A get on a Person client that finds no entry under a key written before:
\* the entry expired and was evicted.
C7_Witness ==
    /\ last.op = "get"
    /\ ~IsNone(written[Val(last.pk)])
    /\ ~HasDoc(Val(last.pk))
    /\ object_type[last.c] = "Person"
    /\ last.res = Ok(PyNone)

\* C8: get_or_raise(k) raises CacheNotFoundError exactly when get(k) in the
\* same state returns None, and otherwise returns (or raises) what get(k)
\* does; a get_or_raise that returned did not return None.
C8_GetOrRaise ==
    /\ \A c \in clients, key \in keys :
          /\ GetOrRaiseResult(c, key) = Raise("CacheNotFoundError")
                <=> GetResult(c, key) = Ok(PyNone)
          /\ GetResult(c, key) # Ok(PyNone)
                => GetOrRaiseResult(c, key) = GetResult(c, key)
    /\ last.op = "get_or_raise" => last.res # Ok(PyNone)

\* A get_or_raise that returned a falsy value of a live entry.
C8_Witness ==
    /\ last.op = "get_or_raise"
    /\ last.res = Ok(PyInt(0))
    /\ HasDoc(Val(last.pk))

\* C9: two clients with different prefixes on one backend: what get(k)
\* returns to one of them is never an entry the other wrote by set(k, ...)
\* on the same logical key.
C9_PrefixIsolation ==
    /\ \A a \in clients, b \in clients, key \in keys :
          cache_prefix[a] # cache_prefix[b] => PK(a, key) # PK(b, key)
    /\ (IsRead(last.op) /\ IsOk(last.res) /\ last.res # Ok(PyNone)) =>
          LET w == Val(written[Val(last.pk)])
          IN ~(/\ w.c # last.c
               /\ cache_prefix[w.c] # cache_prefix[last.c]
               /\ w.key = last.key)

\* Client 2 reads key k as absent although client 1, under another prefix,
\* has an entry for k.
C9_Witness ==
    /\ last.op = "get" /\ last.c = 2 /\ last.key = <<"k">>
    /\ last.res = Ok(PyNone)
    /\ cache_prefix[1] # cache_prefix[2]
    /\ HasDoc(PK(1, <<"k">>))
    /\ Val(written[PK(1, <<"k">>)]).key = <<"k">>

\* C10: get_cache_key(k) is "<prefix>:<k>" when the prefix is non-empty and
\* k when it is empty or with_prefix is false; get, get_or_raise and set hand
\* exactly this key to the backend, and a set leaves its document under it.
C10_PhysicalKey ==
    /\ \A c \in clients, key \in keys :
          /\ get_cache_key(c, key, TRUE) = Prefixed(c, key)
          /\ get_cache_key(c, key, FALSE) = key
    /\ IsRead(last.op) => last.pk = Some(Prefixed(last.c, last.key))
    /\ (last.op = "set" /\ ~IsNone(last.pk)) =>
          /\ last.pk = Some(Prefixed(last.c, last.key))
          /\ HasDoc(Prefixed(last.c, last.key))
          /\ Val(written[Prefixed(last.c, last.key)]).c = last.c
          /\ Val(written[Prefixed(last.c, last.key)]).key = last.key

C10_Witness ==
    /\ last.op = "set" /\ last.key = <<"k">>
    /\ cache_prefix[last.c] = <<"p">>
    /\ last.pk = Some(<<"p", ":", "k">>)
    /\ HasDoc(<<"p", ":", "k">>)

\* A document for name that MongoCache.get does not take for expired.
HasLiveDoc(name) == \E d \in col : d.name = name /\ ~Expired(d)
Unsupported(c) == object_type[c] \notin SupportedTypes

\* C11 as stated: on a client whose type descriptor matches none of the
\* dispatch rules, every get and every set raises the "Unsupported object
\* type" ValueError, whether or not the key has an entry and whatever the
\* TTL arguments are.
C11_UnsupportedAlwaysRaises ==
    (last.op \in {"get", "set"} /\ Unsupported(last.c)) =>
        last.res = Raise("ValueError")

\* C11 amended: on such a client get(k) raises the ValueError exactly when
\* the backend returns an entry for k and returns None when it returns
\* none; set(k, v, ex) raises the ValueError and writes nothing unless the
\* per-call ex is 0, and then it returns None and writes nothing.
C11_UnsupportedRaises ==
    /\ \A c \in clients, key \in keys :
          Unsupported(c) =>
              GetResult(c, key) = IF HasLiveDoc(PK(c, key))
                                  THEN Raise("ValueError") ELSE Ok(PyNone)
    /\ (last.op = "get" /\ Unsupported(last.c)) =>
          last.res \in {Raise("ValueError"), Ok(PyNone)}
    /\ (last.op = "set" /\ Unsupported(last.c)) =>
          /\ IsNone(last.pk)
          /\ last.res = IF last.ex = Some(0) THEN Ok(PyNone)
                        ELSE Raise("ValueError")

\* A get on a client of unsupported type that found the entry another
\* client wrote, and raised.
C11_Witness ==
    /\ last.op = "get"
    /\ Unsupported(last.c)
    /\ HasDoc(Val(last.pk))
    /\ Val(written[Val(last.pk)]).c # last.c
    /\ last.res = Raise("ValueError")

\* C12: whenever set writes to the backend, the expiration it passes is the
\* per-call ex if one was given, otherwise cache_ttl when cache_ttl > 0,
\* otherwise none; the backend stores the document with that expiration.
C12_TTLResolution ==
    (last.op = "set" /\ ~IsNone(last.pk)) =>
        LET w == Val(written[Val(last.pk)])
        IN /\ ~IsNone(last.ex) => w.ex = last.ex
           /\ (IsNone(last.ex) /\ cache_ttl[last.c] > 0) =>
                  w.ex = Some(cache_ttl[last.c])
           /\ (IsNone(last.ex) /\ cache_ttl[last.c] <= 0) => IsNone(w.ex)
           /\ WrittenDoc(Val(last.pk), w) \in col

\* A set with a negative per-call ex on a client with a positive cache_ttl:
\* the per-call ex is what reaches the backend, the entry has no expiry.
C12_Witness ==
    /\ last.op = "set" /\ ~IsNone(last.pk)
    /\ cache_ttl[last.c] > 0
    /\ last.ex = Some(-1)
    /\ Val(written[Val(last.pk)]).ex = Some(-1)
    /\ \E d \in col : d.name = Val(last.pk) /\ IsNone(d.ex)

\* C13: on a client whose cache_ttl is 0, set(k, v, ex) makes no backend
\* call for any per-call ex, a positive one included: the collection is the
\* same before and after the call.
C13_ZeroTTLSkipsEveryWrite ==
    (last.op = "set" /\ cache_ttl[last.c] = 0 /\ ~IsNone(last.ex)) =>
        IsNone(last.pk)

\* C20: set(k, v, ex=0) writes nothing and deletes nothing: the step leaves
\* the collection as it was, so every key reads after the call as it read
\* before it, and an entry stored under k keeps its value and its expiry.
C20_ZeroExIsNoOp ==
    [][(last'.op = "set" /\ last'.ex = Some(0) /\ now' = now) =>
          /\ col' = col
          /\ written' = written
          /\ last'.res = Ok(PyNone)
          /\ \A c \in clients, key \in keys :
                GetResult(c, key)' = GetResult(c, key)]_vars

\* A set with ex = 0 on a key that holds an entry with an expiry: the entry
\* is still there, with that expiry, and is what get returns.
C20_Witness ==
    /\ last.op = "set" /\ last.ex = Some(0)
    /\ \E d \in col : /\ d.name = PK(last.c, last.key)
                       /\ ~IsNone(d.ex)
                       /\ d = WrittenDoc(d.name, Val(written[d.name]))
    /\ GetResult(last.c, last.key)
          = Ok(Val(written[PK(last.c, last.key)]).value)

\* C18: an entry written with ex = N >= 1 at time t is returned by every get
\* issued before t + N, as long as the key is not written again; its stored
\* expiry is int(t) + N, and get takes a document for expired only when its
\* stored expiry is less than int(time.time()).
C18_NoEarlyExpiry ==
    /\ \A c \in clients, key \in keys :
          LET w == written[PK(c, key)]
          IN (/\ ~IsNone(w)
              /\ Val(w).c = c /\ Val(w).key = key
              /\ ~IsNone(Val(w).due)
              /\ now < Val(Val(w).due))
             => /\ GetResult(c, key) = Ok(Val(w).value)
                /\ MongoGetCol(PK(c, key)) = col
                /\ \E d \in col :
                      /\ d.name = PK(c, key)
                      /\ d.ex = Some((Val(Val(w).due) \div TicksPerSec))
                      /\ Val(Val(w).due) - Val(d.ex) * TicksPerSec < TicksPerSec
    /\ \A d \in col :
          (~IsNone(d.ex) /\ Val(d.ex) * TicksPerSec + TicksPerSec > now)
             => MongoGetOut(d.name) = Some(d.value)

\* A get that returned an entry written part-way through a second, issued
\* on the next whole second, less than ex seconds after the set.
C18_Witness ==
    /\ last.op = "get"
    /\ ~IsNone(written[Val(last.pk)])
    /\ ~IsNone(Val(written[Val(last.pk)]).due)
    /\ now < Val(Val(written[Val(last.pk)]).due)
    /\ now % TicksPerSec = 0
    /\ Val(Val(written[Val(last.pk)]).due) % TicksPerSec # 0
    /\ \E d \in col : d.name = Val(last.pk) /\ d.ex = Some(IntTime)
    /\ last.res = Ok(Val(written[Val(last.pk)]).value)

\* The stored expiry of a document is in the past.
PastExpiry(d) == ~IsNone(d.ex) /\ Val(d.ex) < now \div TicksPerSec

\* C17: a get changes the collection only by deleting the document of its
\* key when that document's stored expiry is in the past; on an absent key,
\* a document with no expiry or one whose expiry has not passed it leaves
\* the collection unchanged, and it never touches a document of another key.
C17_LazyEvictionFrame ==
    [][(IsRead(last'.op) /\ now' = now) =>
          LET name == Val(last'.pk)
          IN /\ col' = {d \in col : ~(d.name = name /\ PastExpiry(d))}
             /\ (~\E d \in col : d.name = name /\ PastExpiry(d)) => col' = col
             /\ \A d \in col : d.name # name => d \in col']_vars

\* A get has evicted the expired document of its key and left in place the
\* document of another key, whose expiry has passed as well.
C17_Witness ==
    /\ last.op = "get"
    /\ ~IsNone(written[Val(last.pk)])
    /\ ~HasDoc(Val(last.pk))
    /\ \E d \in col : d.name # Val(last.pk) /\ PastExpiry(d)

\* The handles a client's attributes hold.
Held(c) == {Val(a) : a \in {_local_cache[c], _remote_cache[c]} \ {None}}

C15_SingleHandle ==
    \A c \in clients :
        /\ built[c] <= 1
        /\ used[c] \subseteq Held(c)
        /\ Cardinality(used[c]) <= 1
        /\ IsNone(_local_cache[c]) \/ IsNone(_remote_cache[c])

\* A get that found the entry an earlier set wrote through the one handle.
C15_Witness ==
    /\ last.op = "get"
    /\ last.res # Ok(PyNone)
    /\ ~IsNone(written[Val(last.pk)])
    /\ built[last.c] = 1
    /\ Cardinality(used[last.c]) = 1

\* C16: when two threads make their first call on a shared client at the
\* same time, exactly one backend handle is constructed and both threads
\* and all later calls go through it.
C16_ConcurrentFirstUse ==
    /\ built[1] <= 1
    /\ Cardinality(used[1]) <= 1

\* C19: the delete of a MongoCache.get running concurrently with a set on
\* the same key removes nothing but the expired document the get read.
C19_EvictsOnlyWhatItRead ==
    [][(pc[1] = "evict" /\ pc'[1] = "idle") =>
          \A d \in col \ col' : Some(d) = Val(getter_doc).doc]_vars

\* C21: a set that reached the backend creates or replaces exactly the
\* document at the physical key of its key, every document under another
\* physical key keeps its value and expiry, and a get or get_or_raise
\* changes no document whose expiry has not passed.
C21_WriteFrame ==
    [][/\ (last'.op = "set" /\ ~IsNone(last'.pk) /\ now' = now) =>
             /\ \A d \in col : d.name # Val(last'.pk) => d \in col'
             /\ \A d \in col' : d.name # Val(last'.pk) => d \in col
             /\ Cardinality({d \in col' : d.name = Val(last'.pk)}) = 1
       /\ (IsRead(last'.op) /\ now' = now) =>
             /\ \A d \in col : ~PastExpiry(d) => d \in col'
             /\ col' \subseteq col]_vars

\* A set has replaced the document of its key while the other key holds a
\* document with an expiry.
C21_Witness ==
    /\ last.op = "set" /\ ~IsNone(last.pk)
    /\ ~IsNone(Val(written[Val(last.pk)]).prev)
    /\ \E d \in col : d.name # Val(last.pk) /\ ~IsNone(d.ex)

\* C22: a set that raises, because the value cannot be encoded by the
\* declared type's encoder or because the type descriptor is unsupported,
\* has made no backend call: the collection is as it was and every key
\* reads as it read before the call.
C22_FailedSetWritesNothing ==
    [][(last'.op = "set" /\ ~IsOk(last'.res) /\ now' = now) =>
          /\ IsNone(last'.pk)
          /\ col' = col
          /\ written' = written
          /\ \A c \in clients, key \in keys :
                GetResult(c, key)' = GetResult(c, key)]_vars

\* A set of an object that cannot be pickled has raised, and the entry the
\* client stored under the key before is what get returns.
C22_Witness ==
    /\ last.op = "set" /\ last.res = Raise("TypeError")
    /\ ~IsNone(written[PK(last.c, last.key)])
    /\ Val(written[PK(last.c, last.key)]).c = last.c
    /\ HasDoc(PK(last.c, last.key))
    /\ GetResult(last.c, last.key)
          = Ok(Val(written[PK(last.c, last.key)]).value)
    /\ Val(written[PK(last.c, last.key)]).value # PyNone

\* C23: after any sequence or interleaving of sets and gets the collection
\* holds at most one document per name: a set on a name that has a
\* document updates that document and adds no second one.
C23_KeyUniqueness ==
    \A d1 \in col, d2 \in col : d1.name = d2.name => d1 = d2

\* A get in progress has read the document of its key, a concurrent set has
\* since replaced it, and the key holds the new document.
C23_Witness ==
    /\ pc[1] = "found"
    /\ ~IsNone(Val(getter_doc).doc)
    /\ Val(Val(getter_doc).doc) \notin col
    /\ HasDoc(Val(Val(getter_doc).doc).name)

\* C24: MongoCache.set with ex < 1 stores the document with no expiry, as
\* ex = None does: the value is what get returns at every later time until
\* the name is set again.
C24_NonPositiveExNeverExpires ==
    \A name \in keys :
        LET w == written[name]
        IN (~IsNone(w) /\ (IsNone(Val(w).ex) \/ Val(Val(w).ex) < 1)) =>
              /\ MongoGetOut(name) = Some(Val(w).value)
              /\ MongoGetCol(name) = col
              /\ [name |-> name, value |-> Val(w).value, ex |-> None] \in col

\* A get at the end of the clock's range returned the value set with ex = 0
\* over a document whose expiry has since passed.
C24_Witness ==
    /\ last.op = "MongoCache.get"
    /\ now = MaxTime
    /\ ~IsNone(written[Val(last.pk)])
    /\ Val(written[Val(last.pk)]).ex = Some(0)
    /\ ~IsNone(Val(written[Val(last.pk)]).prev)
    /\ Val(Val(written[Val(last.pk)]).prev) < IntTime
    /\ last.res = Ok(Val(written[Val(last.pk)]).value)

\* A prefix that is not empty and does not hold the separator.
Plain(p) == p # <<>> /\ \A i \in 1..Len(p) : p[i] # ":"

\* C25 as stated: for two clients on one backend with different prefixes no
\* logical key of one maps to the physical key of a logical key of the
\* other, so what a client reads is never an entry the other wrote.
C25_NamespaceSeparation ==
    (IsRead(last.op) /\ IsOk(last.res) /\ last.res # Ok(PyNone)) =>
        LET w == Val(written[Val(last.pk)])
        IN ~(w.c # last.c /\ cache_prefix[w.c] # cache_prefix[last.c])

\* C25 amended: the separation holds for two different prefixes that are
\* both non-empty and hold no ":"; and a client maps different logical keys
\* to different physical keys.
C25_PlainPrefixSeparation ==
    /\ \A a \in clients, b \in clients, k1 \in keys, k2 \in keys :
          (/\ cache_prefix[a] # cache_prefix[b]
           /\ Plain(cache_prefix[a]) /\ Plain(cache_prefix[b]))
          => PK(a, k1) # PK(b, k2)
    /\ \A a \in clients, k1 \in keys, k2 \in keys :
          PK(a, k1) = PK(a, k2) => k1 = k2
    /\ (IsRead(last.op) /\ IsOk(last.res) /\ last.res # Ok(PyNone)) =>
          LET w == Val(written[Val(last.pk)])
          IN ~(/\ w.c # last.c
               /\ cache_prefix[w.c] # cache_prefix[last.c]
               /\ Plain(cache_prefix[w.c]) /\ Plain(cache_prefix[last.c]))

\* Client 2 reads a key as absent although client 1, under another plain
\* prefix, holds an entry of a different logical key, one that starts with
\* a prefix and the separator.
C25_Witness ==
    /\ last.op = "get" /\ last.c = 2 /\ last.key = <<"k">>
    /\ last.res = Ok(PyNone)
    /\ Plain(cache_prefix[1]) /\ Plain(cache_prefix[2])
    /\ cache_prefix[1] # cache_prefix[2]
    /\ HasDoc(PK(1, <<"p", ":", "k">>))
    /\ Val(written[PK(1, <<"p", ":", "k">>)]).c = 1

\* The entry a client's set stored under a key is still the last write to
\* its physical key, and the time it was written to live has not run out.
StoredAndFresh(c, key) ==
    LET w == written[PK(c, key)]
    IN /\ ~IsNone(w)
       /\ Val(w).c = c /\ Val(w).key = key
       /\ IsNone(Val(w).due) \/ now < Val(Val(w).due)

\* C26: get(k) returns None and get_or_raise(k) raises CacheNotFoundError
\* only when the backend holds no live entry under the physical key of k;
\* whenever a set(k, v) succeeded and the entry has neither expired nor
\* been overwritten, get_or_raise(k) returns without raising.
C26_MissesAreReal ==
    \A c \in clients, key \in keys :
        /\ (\/ GetResult(c, key) = Ok(PyNone)
            \/ GetOrRaiseResult(c, key) = Raise("CacheNotFoundError"))
           => ~HasLiveDoc(PK(c, key))
        /\ StoredAndFresh(c, key) => IsOk(GetOrRaiseResult(c, key))

\* What the connection strings of MongoUrls hold: the database name in the
\* path and the values of the collection parameter, read off the strings.
DbNameIn(path) ==
    IF path \in {<<"/", "d">>, <<"/", "d", "/">>} THEN Some(<<"d">>) ELSE None
CollectionsIn(query) ==
    CASE query = CollectionEq \o <<"a">> -> << <<"a">> >>
      [] query = CollectionEq \o <<"a", "&">> \o CollectionEq \o <<"b">> ->
            << <<"a">>, <<"b">> >>
      [] query = <<"x", "=", "1", "&">> \o CollectionEq \o <<"b">> -> << <<"b">> >>
      [] OTHER -> <<>>
Malformed(url) ==
    \/ IsEmptyUrl(url)
    \/ SchemeOf(url) \notin {<<"m", "o", "n", "g", "o", "d", "b">>,
                             <<"m", "o", "n", "g", "o", "d", "b", "+", "s", "r", "v">>}
    \/ IsNone(DbNameIn(PathOf(url)))
    \/ CollectionsIn(QueryOf(url)) = <<>>

\* C27: constructing a MongoCache from a malformed connection string (an
\* empty one, a scheme that does not start with "mongo", no database name
\* in the path, no collection parameter in the query) raises ValueError
\* and sets nothing up; from a well-formed one it sets up the database of
\* the path, the first collection named and the unique index on name.
C27_ConstructionValidates ==
    [][last'.op = "MongoCache" =>
          LET url == last'.key
              made == <<"MongoCache", Val(DbNameIn(PathOf(url))),
                        CollectionsIn(QueryOf(url))[1], <<"name", "unique">>>>
          IN IF Malformed(url)
             THEN last'.res = Raise("ValueError") /\ mongo' = mongo
             ELSE last'.res = Ok(made) /\ mongo' = Some(made)]_vars

\* A MongoCache constructed from a connection string that names two
\* collections uses the first.
C27_Witness ==
    /\ last.op = "MongoCache"
    /\ Len(CollectionsIn(QueryOf(last.key))) = 2
    /\ IsOk(last.res)
    /\ ~IsNone(mongo)
    /\ Val(mongo)[3] = <<"a">>

====
